---- MODULE Spec2Model ----
(***************************************************************************)
(* Crossing server: the HTTP handlers of src/unnamed/part_000 (the         *)
(* PIN-less variant, with POST /auth/login-or-register) and of             *)
(* src/server.js (the PIN variant, with POST /auth/register and            *)
(* /auth/login), over the tables created by initDB and the in-memory       *)
(* token map.                                                              *)
(*                                                                         *)
(* Granularity.  A handler is an async function: it runs synchronously up  *)
(* to an `await pool.query(...)`, the statement executes atomically in the *)
(* database, and the handler resumes later.  Statements of different       *)
(* requests interleave freely.  The JavaScript between two statements      *)
(* touches only the token map and the response, and a statement touches    *)
(* only the tables, so each action below is one statement together with    *)
(* the JavaScript around it; a handler of k statements that read or write  *)
(* modelled columns is k actions.  Requests are anonymous: the ones that   *)
(* wait between two statements form a bag, and the response sent last is   *)
(* kept for the properties to read.                                        *)
(*                                                                         *)
(* Strings are tuples of one-character strings, so that trim() and LOWER() *)
(* are computed and not assumed.  Columns that no modelled statement reads *)
(* in a WHERE clause or writes from a request (email, clients.created_at,  *)
(* last_seen, ecosystem.id) are left out.  The append-only tables keep     *)
(* their rows in insertion order, which is the order of their NOW()        *)
(* timestamps (updated_at, recorded_at, created_at).                       *)
(***************************************************************************)
EXTENDS Integers, Sequences, FiniteSets, Bags, TLC

VARIABLES
  variant,      \* which source file is deployed: "pinless" (part_000) or "pin" (server.js)
  practPin,     \* process.env.PRACTITIONER_PIN, Undefined when unset
  now,          \* Date.now(), in seconds
  clients,      \* table clients: sequence of rows [id, name, pin_hash]
  clientSeq,    \* the SERIAL sequence behind clients.id
  tokens,       \* const tokens = new Map(): token -> [clientId, name, expires]
  tokenCtr,     \* number of tokens drawn from crypto.randomBytes so far
  sessions,     \* table sessions: sequence of rows, sessions[i].id = i
  ecosystem,    \* table ecosystem: a bag of rows (no statement orders them)
  data,         \* the append-only tables story_arc, need_scores, affect_measurements,
                \* conversations, assignments: each a sequence of rows in insertion order
  apiKey,       \* process.env.ANTHROPIC_API_KEY, Undefined when unset
  inflight,     \* the requests between two statements: a bag of records
  resp,         \* the response sent last
  hIssued,      \* history: token -> [clientId, name, at] as createToken issued it
  hFirst,       \* history: lower-cased name -> clientId of the first isNew=true response
  hStartOverlap,\* history: clients for which two /sessions/start requests overlapped
  hEco,         \* history: client -> what the save requests for its ecosystem did
  hOutbound     \* history: number of calls made to the third-party endpoint

vars == << variant, practPin, now, clients, clientSeq, tokens, tokenCtr, sessions,
           ecosystem, data, apiKey, inflight, resp, hIssued, hFirst, hStartOverlap,
           hEco, hOutbound >>

----------------------------------------------------------------------------
(* Bounds of the model. *)

MaxReq == 2          \* requests in flight (between two statements) at once
MaxTokens == 2       \* tokens issued in one behaviour
MaxEpochs == 2       \* the clock stops after MaxEpochs token lifetimes
MaxSessions == 3     \* rows of table sessions
MaxClientId == 3     \* values drawn from the sequence behind clients.id
MaxRows == 11        \* rows of each append-only table
MaxCalls == 3        \* calls made to the third-party endpoint
MaxDays == 4         \* the week scenario ends MaxDays days after it began

----------------------------------------------------------------------------
(* JavaScript and SQL values. *)

Undefined == << "undefined" >>      \* a missing body field / header / env variable

WhiteSpace == { " ", "\t" }

RECURSIVE TrimStart(_)
TrimStart(s) ==
  IF s # << >> /\ Head(s) \in WhiteSpace THEN TrimStart(Tail(s)) ELSE s

RECURSIVE TrimEnd(_)
TrimEnd(s) ==
  IF s # << >> /\ s[Len(s)] \in WhiteSpace THEN TrimEnd(SubSeq(s, 1, Len(s) - 1)) ELSE s

\* String.prototype.trim
Trim(s) == TrimEnd(TrimStart(s))

LowerChar(c) ==
  CASE c = "A" -> "a"
    [] c = "N" -> "n"
    [] c = "B" -> "b"
    [] OTHER -> c

\* SQL LOWER(text)
Lower(s) == [i \in 1..Len(s) |-> LowerChar(s[i])]

\* JavaScript truthiness of a string-or-undefined value: !x
Falsy(s) == s = Undefined \/ s = << >>

----------------------------------------------------------------------------
(* Token registry. *)

\* The clock is read in whole seconds: expires = Date.now() + 7*24*60*60*1000
\* milliseconds is now + TokenTTL seconds, and the comparison is the same.
TokenTTL == 7 * 24 * 60 * 60

NoToken == 0                    \* x-auth-token missing or empty
ForgedToken == MaxTokens + 1    \* a string randomBytes never returned

\* crypto.randomBytes(32).toString('hex'): a string not drawn before
NextToken == tokenCtr + 1

\* the Map after tokens.set(token, {clientId, name, expires})
createToken(clientId, name) ==
  [t \in DOMAIN tokens \cup {NextToken} |->
     IF t = NextToken
       THEN [clientId |-> clientId, name |-> name, expires |-> now + TokenTTL]
       ELSE tokens[t]]

\* mutant: the token dies one tick early
TokenRejectedEarly(token) ==
  token \notin DOMAIN tokens \/ now >= tokens[token].expires

\* !t || Date.now() > t.expires
TokenRejected(token) ==
  token \notin DOMAIN tokens \/ now > tokens[token].expires

\* JavaScript null as a token entry (no client has id 0: SERIAL starts at 1)
Null == [clientId |-> 0, name |-> << >>, expires |-> 0]

\* mutant: the expiry test is missing, every token in the map is accepted
validateTokenUnexpiring(token) ==
  IF token \in DOMAIN tokens THEN tokens[token] ELSE Null

\* validateToken's return value: the entry, or Null
validateToken(token) ==
  IF token = NoToken THEN Null
  ELSE IF TokenRejected(token) THEN Null
  ELSE tokens[token]

\* mutant: sliding expiration, a valid token is renewed on use
TokensAfterValidateSliding(token) ==
  IF token = NoToken THEN tokens
  ELSE IF TokenRejected(token) THEN [t \in DOMAIN tokens \ {token} |-> tokens[t]]
  ELSE [tokens EXCEPT ![token].expires = now + TokenTTL]

\* the Map after validateToken(token)
TokensAfterValidate(token) ==
  IF token # NoToken /\ TokenRejected(token)
    THEN [t \in DOMAIN tokens \ {token} |-> tokens[t]]
    ELSE tokens

----------------------------------------------------------------------------
(* Requests. *)

NoResp == [op |-> "none"]

InFlight == BagToSet(inflight)
Enter(q) == inflight (+) SetToBag({q})
Leave(q) == inflight (-) SetToBag({q})
Room == BagCardinality(inflight) < MaxReq

\* res.status(status).json(...) of the three auth handlers; fresh and created
\* are history: whether the lookup found no row, and the rows inserted
AuthResponse(op, name, status, isNew, clientId, token, fresh, created) ==
  [op |-> op, name |-> name, status |-> status, isNew |-> isNew,
   clientId |-> clientId, token |-> token, fresh |-> fresh, created |-> created]

NameInputs ==
  { Undefined, << >>, << " " >>, << "A", "n" >>, << "a", "n" >>,
    << " ", "a", "n", " " >>, << "B" >> }

\* truthy values of name in a JSON body that are not strings: a number, an
\* array
NonStrings == { << "number 7" >>, << "array [1]" >> }

\* what becomes of a request whose async handler throws outside its try:
\* the rejection is passed to the framework's error handler, which answers
\* 500, or it is not handled and no response is sent (status 0)
Thrown == { 500, 0 }

PinInputs == { Undefined, << "1", "2", "3" >>, << "1", "2", "3", "4" >> }

NoPin == << "no-pin" >>

\* server.js hashPin: sha256 of pin + salt, taken as injective
hashPin(pin) == << "sha256" >> \o pin \o << "crossing_sva_2025" >>

\* SELECT id, name FROM clients WHERE LOWER(name)=LOWER($1): the matching rows
ClientsByNameCI(cleanName) ==
  { i \in DOMAIN clients : Lower(clients[i].name) = Lower(cleanName) }

\* name TEXT NOT NULL UNIQUE: the constraint an INSERT of `name` would violate
NameTaken(name) == \E i \in DOMAIN clients : clients[i].name = name

\* history: the first isNew=true response for a name, whatever its letter case
NoteFirst(cleanName, id) ==
  IF Lower(cleanName) \in DOMAIN hFirst THEN hFirst
  ELSE [n \in DOMAIN hFirst \cup {Lower(cleanName)} |->
          IF n = Lower(cleanName) THEN id ELSE hFirst[n]]

NoteIssued(clientId, name) ==
  [t \in DOMAIN hIssued \cup {NextToken} |->
     IF t = NextToken THEN [clientId |-> clientId, name |-> name, at |-> now]
     ELSE hIssued[t]]

\* the part of the state no auth handler touches
AuthFrame == UNCHANGED << variant, practPin, now, sessions, ecosystem, data,
                          apiKey, hStartOverlap, hEco, hOutbound >>

\* token: createToken(c.id, c.name) inside res.json
IssueToken(clientId, name) ==
  /\ tokenCtr < MaxTokens
  /\ tokens' = createToken(clientId, name)
  /\ tokenCtr' = NextToken
  /\ hIssued' = NoteIssued(clientId, name)

\* POST /auth/login-or-register up to and including the SELECT; when a row is
\* found, also the UPDATE of last_seen and the response
LorStart(name) ==
  /\ variant = "pinless"
  /\ AuthFrame
  /\ IF ~Falsy(name) /\ name \in NonStrings
       THEN \* name.trim is not a function: the TypeError is thrown before try
            /\ \E status \in Thrown :
                 resp' = AuthResponse("lor", name, status, FALSE, 0, NoToken, FALSE, 0)
            /\ UNCHANGED << clients, clientSeq, tokens, tokenCtr, inflight, hIssued,
                            hFirst >>
     ELSE IF Falsy(name) \/ Falsy(Trim(name))
       THEN /\ resp' = AuthResponse("lor", name, 400, FALSE, 0, NoToken, FALSE, 0)
            /\ UNCHANGED << clients, clientSeq, tokens, tokenCtr, inflight, hIssued,
                            hFirst >>
       ELSE LET cleanName == Trim(name)
                existing == ClientsByNameCI(cleanName)
            IN  IF existing # {}
                  THEN \E i \in existing :      \* existing.rows[0]: no ORDER BY
                         /\ IssueToken(clients[i].id, clients[i].name)
                         /\ resp' = AuthResponse("lor", name, 200, FALSE, clients[i].id,
                                                 NextToken, FALSE, 0)
                         /\ UNCHANGED << clients, clientSeq, inflight, hFirst >>
                  ELSE /\ Room
                       /\ inflight' = Enter([op |-> "lor", name |-> name,
                                             cleanName |-> cleanName])
                       /\ UNCHANGED << clients, clientSeq, tokens, tokenCtr, resp,
                                       hIssued, hFirst >>

\* POST /auth/login-or-register: the INSERT and the response
LorInsert(q) ==
  /\ q.op = "lor"
  /\ clientSeq < MaxClientId
  /\ AuthFrame
  /\ inflight' = Leave(q)
  /\ clientSeq' = clientSeq + 1           \* nextval runs before the UNIQUE check
  /\ LET id == clientSeq + 1
     IN  IF NameTaken(q.cleanName)
           THEN /\ resp' = AuthResponse("lor", q.name, 500, FALSE, 0, NoToken, TRUE, 0)
                /\ UNCHANGED << clients, tokens, tokenCtr, hIssued, hFirst >>
           ELSE /\ clients' = Append(clients,
                                     [id |-> id, name |-> q.cleanName,
                                      pin_hash |-> NoPin])
                /\ IssueToken(id, q.cleanName)
                /\ hFirst' = NoteFirst(q.cleanName, id)
                /\ resp' = AuthResponse("lor", q.name, 200, TRUE, id, NextToken, TRUE, 1)

\* POST /auth/register (one statement)
Register(name, pin) ==
  /\ variant = "pin"
  /\ AuthFrame
  /\ UNCHANGED << inflight, hFirst >>
  /\ IF Falsy(name) \/ Falsy(pin) \/ Len(pin) < 4
       THEN /\ resp' = AuthResponse("register", name, 400, FALSE, 0, NoToken, FALSE, 0)
            /\ UNCHANGED << clients, clientSeq, tokens, tokenCtr, hIssued >>
       ELSE /\ clientSeq < MaxClientId
            /\ clientSeq' = clientSeq + 1
            /\ LET id == clientSeq + 1
               IN  IF NameTaken(Trim(name))
                     THEN /\ resp' = AuthResponse("register", name, 409, FALSE, 0,
                                                  NoToken, FALSE, 0)
                          /\ UNCHANGED << clients, tokens, tokenCtr, hIssued >>
                     ELSE /\ clients' = Append(clients,
                                               [id |-> id, name |-> Trim(name),
                                                pin_hash |-> hashPin(pin)])
                          /\ IssueToken(id, Trim(name))
                          /\ resp' = AuthResponse("register", name, 200, TRUE, id,
                                                  NextToken, TRUE, 1)

\* POST /auth/login (the SELECT, the UPDATE of last_seen, the response)
Login(name, pin) ==
  /\ variant = "pin"
  /\ AuthFrame
  /\ UNCHANGED << clients, clientSeq, inflight, hFirst >>
  /\ IF Falsy(name) \/ Falsy(pin)
       THEN /\ resp' = AuthResponse("login", name, 400, FALSE, 0, NoToken, FALSE, 0)
            /\ UNCHANGED << tokens, tokenCtr, hIssued >>
       ELSE LET found == { i \in ClientsByNameCI(Trim(name)) :
                             clients[i].pin_hash = hashPin(pin) }
            IN  IF found = {}
                  THEN /\ resp' = AuthResponse("login", name, 401, FALSE, 0, NoToken,
                                               FALSE, 0)
                       /\ UNCHANGED << tokens, tokenCtr, hIssued >>
                  ELSE \E i \in found :         \* result.rows[0]: no ORDER BY
                         /\ IssueToken(clients[i].id, clients[i].name)
                         /\ resp' = AuthResponse("login", name, 200, FALSE,
                                                 clients[i].id, NextToken, FALSE, 0)

----------------------------------------------------------------------------
(* The client-session gate and the session handlers (the same text in both *)
(* source files).                                                          *)

\* x-auth-token of a client of the application: nothing, or a token some
\* response carried
SentTokens == 0..tokenCtr

\* what a request may put in x-auth-token: the above, or a string that
\* randomBytes never returned
TokenHeaders == SentTokens \cup {ForgedToken}

\* res.status(401).json({error: 'Not authenticated'}) from auth
Unauthorized(op, token) ==
  [op |-> op, token |-> token, at |-> now, status |-> 401, clientId |-> 0,
   clientName |-> << >>]

\* res.json(...) of a handler behind auth: req.clientId and req.clientName
\* with what the handler answers
Answer(op, token, at, t, status) ==
  [op |-> op, token |-> token, at |-> at, status |-> status,
   clientId |-> t.clientId, clientName |-> t.name]

\* optional numeric body fields: << >> when absent, << n >> when present
NumInputs == { << >>, << 0 >>, << 7 >> }

\* duration || 0
OrZero(x) == IF x = << >> THEN 0 ELSE x[1]

\* mutant: the WHERE clause is missing
SessionCountAll(clientId) == Len(sessions)

\* SELECT COUNT(*) FROM sessions WHERE client_id=$1
SessionCount(clientId) ==
  Cardinality({ i \in DOMAIN sessions : sessions[i].client_id = clientId })

\* const num = parseInt(n.rows[0].count) + 1
SessionNumber(clientId) == SessionCount(clientId) + 1

\* the part of the state no session handler touches
SessFrame == UNCHANGED << variant, practPin, now, clients, clientSeq, tokenCtr,
                          ecosystem, data, apiKey, hIssued, hFirst, hEco,
                          hOutbound >>

\* POST /sessions/start: auth and the SELECT COUNT(*)
SessStart(token) ==
  /\ SessFrame
  /\ UNCHANGED sessions
  /\ tokens' = TokensAfterValidate(token)
  /\ LET t == validateToken(token)
     IN  IF t = Null
           THEN /\ resp' = Unauthorized("start", token)
                /\ UNCHANGED << inflight, hStartOverlap >>
           ELSE /\ Room
                /\ inflight' = Enter([op |-> "start", token |-> token, at |-> now,
                                      clientId |-> t.clientId, name |-> t.name,
                                      num |-> SessionNumber(t.clientId),
                                      countedAt |-> Len(sessions)])
                /\ UNCHANGED resp
                /\ hStartOverlap' =
                     IF \E q \in InFlight : q.op = "start" /\ q.clientId = t.clientId
                       THEN hStartOverlap \cup {t.clientId}
                       ELSE hStartOverlap

\* mutant: the number is computed by the INSERT itself, atomically
InsertedNumberAtomic(q) == SessionNumber(q.clientId)

\* the num that /sessions/start inserts and returns: the one computed before
\* the INSERT was awaited
InsertedNumber(q) == q.num

\* POST /sessions/start: the INSERT and the response
SessInsert(q) ==
  /\ q.op = "start"
  /\ Len(sessions) < MaxSessions
  /\ SessFrame
  /\ UNCHANGED << tokens, hStartOverlap >>
  /\ inflight' = Leave(q)
  /\ sessions' = Append(sessions,
                        [id |-> Len(sessions) + 1, client_id |-> q.clientId,
                         started_at |-> now, ended_at |-> << >>,
                         duration_seconds |-> 0, word_count |-> 0,
                         session_number |-> InsertedNumber(q),
                         hCountedAt |-> q.countedAt])
  /\ resp' = [op |-> "start", token |-> q.token, at |-> q.at, status |-> 200,
              clientId |-> q.clientId, clientName |-> q.name,
              sessionId |-> Len(sessions) + 1, sessionNumber |-> InsertedNumber(q)]

\* mutant: the UPDATE is scoped by the session id alone
EndMatchesAnyOwner(id, clientId) ==
  { i \in DOMAIN sessions : sessions[i].id = id }

\* UPDATE sessions SET ... WHERE id=$3 AND client_id=$4: the rows it matches
EndMatches(id, clientId) ==
  { i \in DOMAIN sessions : sessions[i].id = id /\ sessions[i].client_id = clientId }

\* POST /sessions/:id/end (one statement)
SessEnd(token, id, duration, wordCount) ==
  /\ SessFrame
  /\ UNCHANGED << inflight, hStartOverlap >>
  /\ tokens' = TokensAfterValidate(token)
  /\ LET t == validateToken(token)
     IN  IF t = Null
           THEN /\ resp' = Unauthorized("end", token)
                /\ UNCHANGED sessions
           ELSE /\ sessions' =
                     [i \in DOMAIN sessions |->
                        IF i \in EndMatches(id, t.clientId)
                          THEN [sessions[i] EXCEPT !.ended_at = << now >>,
                                                   !.duration_seconds = OrZero(duration),
                                                   !.word_count = OrZero(wordCount)]
                          ELSE sessions[i]]
                /\ resp' = [op |-> "end", token |-> token, at |-> now, status |-> 200,
                            clientId |-> t.clientId, clientName |-> t.name, id |-> id]

----------------------------------------------------------------------------
(* POST /data/ecosystem (the same text in both source files). *)

\* the elements of a people array: an object, or null
Mum     == [isNull |-> FALSE, name |-> << "M" >>, type |-> << "f" >>,
            needs |-> << "seen", "guided" >>]
Coach   == [isNull |-> FALSE, name |-> << "C" >>, type |-> << "p" >>,
            needs |-> Undefined]
NullP   == [isNull |-> TRUE, name |-> Undefined, type |-> Undefined,
            needs |-> Undefined]

\* request bodies: {} and {people: [...]}
EcoBodies ==
  { [has |-> FALSE, people |-> << >>] } \cup
  { [has |-> TRUE, people |-> l] :
      l \in { << Coach, Mum >>, << Mum, NullP >> } }

\* people || []
PeopleOrEmpty(body) == IF body.has THEN body.people ELSE << >>

\* p.needs || []
NeedsOrEmpty(p) == IF p.needs = Undefined THEN << >> ELSE p.needs

\* the row INSERT INTO ecosystem (...) VALUES ($1,$2,$3,$4) stores
EcoRow(clientId, p) ==
  [client_id |-> clientId, person_name |-> p.name,
   person_type |-> p.type, needs_provided |-> NeedsOrEmpty(p)]

\* mutant: the DELETE is missing, the save appends
EcoKeepAll(clientId) == ecosystem

\* the table after DELETE FROM ecosystem WHERE client_id=$1
EcoAfterDelete(clientId) ==
  [row \in { x \in DOMAIN ecosystem : x.client_id # clientId } |-> ecosystem[row]]

\* history of the saves of one client: the lists requested so far, whether
\* a save of the client has started while another was between two
\* statements (and none has started alone since), and the list of the last
\* save when it completed with {ok:true}, overlapped no other save of the
\* client and no save of the client has started since
NoEco == [lists |-> {}, dirty |-> FALSE, last |-> << >>]
EcoHist(c) == IF c \in DOMAIN hEco THEN hEco[c] ELSE NoEco
EcoHistSet(c, h) ==
  [x \in DOMAIN hEco \cup {c} |-> IF x = c THEN h ELSE hEco[x]]

\* the part of the state the ecosystem handler does not touch
EcoFrame == UNCHANGED << variant, practPin, now, clients, clientSeq, tokenCtr,
                         sessions, data, apiKey, hIssued, hFirst, hStartOverlap,
                         hOutbound >>

EcoSaving(q, clientId) == q.op = "eco" /\ q.clientId = clientId

\* POST /data/ecosystem: auth and the DELETE; the response when there is
\* nothing to insert
EcoStart(token, body) ==
  /\ EcoFrame
  /\ tokens' = TokensAfterValidate(token)
  /\ LET t == validateToken(token)
         people == PeopleOrEmpty(body)
         c == t.clientId
         alone == ~ \E q \in InFlight : EcoSaving(q, c)
         repeat == EcoHist(c).last # << >> /\ EcoHist(c).last[1].list = people
     IN  IF t = Null
           THEN /\ resp' = Unauthorized("eco", token)
                /\ UNCHANGED << ecosystem, inflight, hEco >>
           ELSE /\ ecosystem' = EcoAfterDelete(c)
                /\ IF people = << >>
                     THEN /\ resp' = Answer("eco", token, now, t, 200)
                          /\ UNCHANGED inflight
                     ELSE /\ Room
                          /\ inflight' = Enter([op |-> "eco", token |-> token,
                                                at |-> now, clientId |-> c,
                                                name |-> t.name, people |-> people,
                                                idx |-> 1, repeat |-> repeat])
                          /\ UNCHANGED resp
                /\ hEco' = EcoHistSet(c,
                             [lists |-> EcoHist(c).lists \cup {people},
                              dirty |-> ~ alone,
                              last |-> IF people = << >> /\ alone
                                         THEN << [list |-> people, repeat |-> repeat] >>
                                         ELSE << >>])

\* POST /data/ecosystem: one turn of the loop, and the response after the last
EcoInsert(q) ==
  /\ q.op = "eco"
  /\ EcoFrame
  /\ UNCHANGED tokens
  /\ LET p == q.people[q.idx]
         c == q.clientId
         t == [clientId |-> c, name |-> q.name]
     IN  IF p.isNull
           THEN \* p.name throws a TypeError, caught: res.status(500)
                /\ inflight' = Leave(q)
                /\ resp' = Answer("eco", q.token, q.at, t, 500)
                /\ UNCHANGED << ecosystem, hEco >>
           ELSE /\ ecosystem' = ecosystem (+) SetToBag({ EcoRow(c, p) })
                /\ IF q.idx < Len(q.people)
                     THEN /\ inflight' = Leave(q) (+) SetToBag({[q EXCEPT !.idx = q.idx + 1]})
                          /\ UNCHANGED << resp, hEco >>
                     ELSE /\ inflight' = Leave(q)
                          /\ resp' = Answer("eco", q.token, q.at, t, 200)
                          /\ hEco' =
                               IF EcoHist(c).dirty
                                 THEN hEco
                                 ELSE EcoHistSet(c,
                                        [EcoHist(c) EXCEPT
                                           !.last = << [list |-> q.people,
                                                        repeat |-> q.repeat] >>])

----------------------------------------------------------------------------
(* The append-only save handlers POST /data/story, /data/needs,            *)
(* /data/affect, /data/conversation and /data/assignment (the same text in *)
(* both source files).  Each is auth and one INSERT.                       *)

\* the five tables as initDB creates them
NoData == [story_arc |-> << >>, need_scores |-> << >>,
           affect_measurements |-> << >>, conversations |-> << >>,
           assignments |-> << >>]

\* sessionId in a request body: absent, 0, or the id of a session
SessionIdInputs == { << >>, << 0 >>, << 1 >> }

\* sessionId||null
OrNull(x) == IF x = << >> \/ x = << 0 >> THEN << >> ELSE x

\* a text field of a request body: absent or a string
TextInputs == { Undefined, << "t" >> }

\* the table after one more row; SERIAL gives the row its id
Inserted(table, row) ==
  [data EXCEPT ![table] = Append(@, [id |-> Len(@) + 1] @@ row)]

\* the part of the state no save handler touches
DataFrame == UNCHANGED << variant, practPin, now, clients, clientSeq, tokenCtr,
                          sessions, ecosystem, apiKey, inflight, hIssued, hFirst,
                          hStartOverlap, hEco, hOutbound >>

\* auth, then the INSERT of a row into a table when no column constraint
\* and no TypeError stands in the way, then the response
Save(op, table, token, fails, row) ==
  /\ DataFrame
  /\ tokens' = TokensAfterValidate(token)
  /\ LET t == validateToken(token)
     IN  IF t = Null
           THEN /\ resp' = Unauthorized(op, token)
                /\ UNCHANGED data
           ELSE IF fails
                  THEN /\ resp' = Answer(op, token, now, t, 500)
                       /\ UNCHANGED data
                  ELSE /\ Len(data[table]) < MaxRows
                       /\ data' = Inserted(table, [client_id |-> t.clientId] @@ row)
                       /\ resp' = Answer(op, token, now, t, 200)

\* POST /data/story
Story(token, sessionId, pointA) ==
  Save("story", "story_arc", token, FALSE,
       [session_id |-> OrNull(sessionId), point_a |-> pointA])

\* POST /data/needs
Needs(token, sessionId, volitionIndex) ==
  Save("needs", "need_scores", token, FALSE,
       [session_id |-> OrNull(sessionId), volition_index |-> volitionIndex])

\* scores in the body of POST /data/affect: absent, or five answers
ScoresInputs == { Undefined, << 1, 1, 1, 1, 1 >> }

\* total in the body of POST /data/affect: the sum of the answers or not
TotalInputs == { 5, 9 }

\* POST /data/affect: scores.q1 throws when scores is absent, phase is NOT NULL
Affect(token, sessionId, phase, scores, total) ==
  Save("affect", "affect_measurements", token,
       scores = Undefined \/ phase = Undefined,
       [session_id |-> OrNull(sessionId), phase |-> phase, q |-> scores,
        total |-> total])

\* POST /data/conversation: role and content are NOT NULL
Conversation(token, sessionId, role, content) ==
  Save("conversation", "conversations", token,
       role = Undefined \/ content = Undefined,
       [session_id |-> OrNull(sessionId), role |-> role, content |-> content])

\* POST /data/assignment
Assignment(token, sessionId, assignmentText) ==
  Save("assignment", "assignments", token, FALSE,
       [session_id |-> OrNull(sessionId), assignment_text |-> assignmentText])

----------------------------------------------------------------------------
(* GET /data/load (the same text in both source files).  The handler       *)
(* issues seven SELECTs, each of which fills one field of the response,    *)
(* and no property below relates two fields of one response, so the seven  *)
(* reads are one action.                                                   *)

Day == 24 * 60 * 60

\* Date.prototype.getDay() of the instant t (seconds since 1970-01-01, a
\* Thursday; the server's time zone is UTC): 0 is Sunday
getDay(t) == ((t \div Day) + 4) % 7

\* weekStart.setDate(getDate() - getDay() + 1); weekStart.setHours(0,0,0,0)
weekStart(t) == ((t \div Day) - getDay(t) + 1) * Day

\* mutant: ORDER BY <timestamp> ASC
Asc(rows) == rows

\* ORDER BY <timestamp> DESC
Desc(rows) == [i \in 1..Len(rows) |-> rows[Len(rows) + 1 - i]]

\* LIMIT n
Limit(rows, n) == IF Len(rows) <= n THEN rows ELSE SubSeq(rows, 1, n)

\* mutant: the query without its WHERE clause
LatestOfAll(table, id, n) == Limit(Desc(data[table]), n)

\* SELECT * FROM <table> WHERE client_id=$1 ORDER BY <timestamp> DESC LIMIT n
Latest(table, id, n) ==
  LET Mine(row) == row.client_id = id
  IN  Limit(Desc(SelectSeq(data[table], Mine)), n)

\* SELECT * FROM ecosystem WHERE client_id=$1
EcoRows(id) ==
  [row \in { x \in DOMAIN ecosystem : x.client_id = id } |-> ecosystem[row]]

\* SELECT COUNT(*) FROM sessions WHERE client_id=$1 AND started_at>=$2
WeekCount(id, since) ==
  Cardinality({ i \in DOMAIN sessions :
                  sessions[i].client_id = id /\ sessions[i].started_at >= since })

\* lastSess.rows[0]?.started_at || null
LastStarted(id) ==
  LET mine == { i \in DOMAIN sessions : sessions[i].client_id = id }
  IN  IF mine = {} THEN << >>
      ELSE << sessions[CHOOSE i \in mine :
                         \A j \in mine :
                           sessions[j].started_at <= sessions[i].started_at].started_at >>

\* the number of rows the affect query asks for
AffectLimit == 10

\* GET /data/load
Load(token) ==
  /\ DataFrame
  /\ UNCHANGED data
  /\ tokens' = TokensAfterValidate(token)
  /\ LET t == validateToken(token)
         id == t.clientId
     IN  resp' =
           IF t = Null THEN Unauthorized("load", token)
           ELSE Answer("load", token, now, t, 200) @@
                [story |-> Latest("story_arc", id, 1),
                 needs |-> Latest("need_scores", id, 1),
                 lastAssignment |-> Latest("assignments", id, 1),
                 affect |-> Latest("affect_measurements", id, AffectLimit),
                 ecosystem |-> EcoRows(id),
                 sessionsThisWeek |-> WeekCount(id, weekStart(now)),
                 lastSessionTimestamp |-> LastStarted(id)]

----------------------------------------------------------------------------
(* POST /api/messages, the proxy to the third-party endpoint (the same     *)
(* text in both source files).                                             *)

ApiKey == << "k" >>

\* process.env.ANTHROPIC_API_KEY: unset, empty, or a key
KeyEnvs == { Undefined, << >>, ApiKey }

\* request bodies, forwarded as they are
MessageBodies == { << "a" >>, << "b" >> }

\* what the third-party endpoint answers: its status, or no answer at all
\* (fetch or response.json() throws)
UpstreamOutcomes == { 200, 400, 401, 429, 500, 0 }

\* the part of the state the proxy does not touch
ProxyFrame == UNCHANGED << variant, practPin, now, clients, clientSeq, tokens,
                           tokenCtr, sessions, ecosystem, data, apiKey, hIssued,
                           hFirst, hStartOverlap, hEco >>

\* what the proxy answers
ProxyResponse(body, status, kind) ==
  [op |-> "messages", body |-> body, status |-> status, kind |-> kind]

\* mutant: only an unset variable counts as no key
KeyMissingWhenUnset == apiKey = Undefined

\* !ANTHROPIC_API_KEY
KeyMissing == Falsy(apiKey)

\* POST /api/messages up to the fetch
Messages(body) ==
  /\ ProxyFrame
  /\ IF KeyMissing
       THEN /\ resp' = ProxyResponse(body, 500, "config")
            /\ UNCHANGED << inflight, hOutbound >>
       ELSE /\ Room
            /\ hOutbound < MaxCalls
            /\ inflight' = Enter([op |-> "messages", body |-> body])
            /\ hOutbound' = hOutbound + 1
            /\ UNCHANGED resp

\* POST /api/messages: the third-party endpoint has answered, or has not
MessagesReply(q, outcome) ==
  /\ q.op = "messages"
  /\ ProxyFrame
  /\ UNCHANGED hOutbound
  /\ inflight' = Leave(q)
  /\ resp' = IF outcome = 0 THEN ProxyResponse(q.body, 500, "proxy")
             ELSE ProxyResponse(q.body, outcome, "upstream")

----------------------------------------------------------------------------
(* The practitioner gate and the dashboard handlers. *)

Pin1234 == << "1", "2", "3", "4" >>

\* process.env.PRACTITIONER_PIN: unset, empty, a PIN, a PIN with a trailing blank
PinEnvs == { Undefined, << >>, Pin1234, Pin1234 \o << " " >> }

\* x-practitioner-pin: absent or a string
PinHeaders ==
  { Undefined, Pin1234, << " " >> \o Pin1234 \o << " " >>, << "\t" >> \o Pin1234,
    << "1", "2", "3", "5" >>, << "0", "0", "0", "0" >> }

\* const PRACTITIONER_PIN = process.env.PRACTITIONER_PIN || '0000'
PRACTITIONER_PIN == IF Falsy(practPin) THEN << "0", "0", "0", "0" >> ELSE practPin

\* x || '' and the trim of part_000
OrEmpty(x) == IF Falsy(x) THEN << >> ELSE x

\* practAuth: whether next() is called
practAuth(header) ==
  IF variant = "pinless"
    THEN Trim(OrEmpty(header)) = Trim(OrEmpty(PRACTITIONER_PIN))   \* part_000
    ELSE header = PRACTITIONER_PIN                                  \* server.js

PractFrame == UNCHANGED << variant, practPin, now, clients, clientSeq, tokens,
                           tokenCtr, sessions, ecosystem, data, apiKey, hIssued,
                           hFirst, hStartOverlap, hEco, hOutbound >>

\* res.status(401).json({error: 'Invalid practitioner PIN ...'}) from practAuth
PractDenied(op, header) ==
  [op |-> op, header |-> header, status |-> 401, ran |-> FALSE, ids |-> {}]

\* GET /practitioner/clients (one statement): one summary per client
PractClients(header) ==
  /\ PractFrame
  /\ UNCHANGED inflight
  /\ resp' = IF practAuth(header)
               THEN [op |-> "pract_clients", header |-> header, status |-> 200,
                     ran |-> TRUE, ids |-> { clients[i].id : i \in DOMAIN clients }]
               ELSE PractDenied("pract_clients", header)

\* GET /practitioner/client/:id: the client row, 404 without one
PractClient(header, id) ==
  /\ PractFrame
  /\ UNCHANGED inflight
  /\ resp' = IF practAuth(header)
               THEN LET found == { clients[i].id : i \in DOMAIN clients } \cap {id}
                    IN  [op |-> "pract_client", header |-> header,
                         status |-> IF found = {} THEN 404 ELSE 200, ran |-> TRUE,
                         ids |-> found]
               ELSE PractDenied("pract_client", header)

\* the instants at which the model looks at the clock: every multiple of the
\* token lifetime and the second after it
ClockGrid == { k * TokenTTL + e : k \in 0..MaxEpochs, e \in {0, 1} }

\* the clock: Date.now() moves on between two events
Tick(t) ==
  /\ t > now
  /\ now' = t
  /\ UNCHANGED << variant, practPin, clients, clientSeq, tokens, tokenCtr, sessions,
                  ecosystem, data, apiKey, inflight, resp, hIssued, hFirst,
                  hStartOverlap, hEco, hOutbound >>

----------------------------------------------------------------------------
(* Construction: the tables are created empty, the token map is new. *)

EmptyMap == [t \in {} |-> Null]

Init ==
  /\ variant \in { "pinless", "pin" }
  /\ practPin \in PinEnvs
  /\ now = 0
  /\ clients = << >>
  /\ clientSeq = 0
  /\ tokens = EmptyMap
  /\ tokenCtr = 0
  /\ sessions = << >>
  /\ ecosystem = EmptyBag
  /\ data = NoData
  /\ apiKey \in KeyEnvs
  /\ inflight = EmptyBag
  /\ resp = NoResp
  /\ hIssued = EmptyMap
  /\ hFirst = EmptyMap
  /\ hStartOverlap = {}
  /\ hEco = EmptyMap
  /\ hOutbound = 0

\* Identity resolution: the auth endpoints of both variants.
AuthNext ==
  \/ \E name \in NameInputs : LorStart(name)
  \/ \E q \in InFlight : LorInsert(q)
  \/ \E name \in NameInputs, pin \in PinInputs : Register(name, pin)
  \/ \E name \in NameInputs, pin \in PinInputs : Login(name, pin)

InitAuth == Init /\ practPin = Undefined /\ apiKey = Undefined

SpecAuth == InitAuth /\ [][AuthNext]_vars

\* the two clients of the session and token scenarios
TwoNames == { << "A", "n" >>, << "B" >> }

InitPinless == InitAuth /\ variant = "pinless"

\* Session lifecycle: clients log in and start sessions.
SessNext ==
  \/ \E name \in TwoNames : LorStart(name)
  \/ \E q \in InFlight : LorInsert(q)
  \/ \E token \in TokenHeaders : SessStart(token)
  \/ \E q \in InFlight : SessInsert(q)

SpecSess == InitPinless /\ [][SessNext]_vars

\* the body of POST /sessions/:id/end: a duration and no wordCount
EndBodies == { << << 7 >>, << >> >> }

\* Session end: clients log in, start sessions and end their own or others'.
EndNext ==
  \/ \E name \in TwoNames : LorStart(name)
  \/ \E q \in InFlight : LorInsert(q)
  \/ \E token \in TokenHeaders : SessStart(token)
  \/ \E q \in InFlight : SessInsert(q)
  \/ \E token \in TokenHeaders, id \in 1..MaxSessions, b \in EndBodies :
       SessEnd(token, id, b[1], b[2])

SpecEnd == InitPinless /\ [][EndNext]_vars

\* Token registry: tokens are issued, time passes, tokens are presented.
TokenNext ==
  \/ \E name \in TwoNames : LorStart(name)
  \/ \E q \in InFlight : LorInsert(q)
  \/ \E token \in TokenHeaders : SessEnd(token, 1, << >>, << >>)
  \/ \E t \in ClockGrid : Tick(t)

SpecToken == InitPinless /\ [][TokenNext]_vars

\* Ecosystem replacement: clients log in and save their people lists.
EcoNext ==
  \/ \E name \in TwoNames : LorStart(name)
  \/ \E q \in InFlight : LorInsert(q)
  \/ \E token \in SentTokens, body \in EcoBodies : EcoStart(token, body)
  \/ \E q \in InFlight : EcoInsert(q)

SpecEco == InitPinless /\ [][EcoNext]_vars

\* Practitioner dashboard: either variant, any configured secret; one client
\* signs up and practitioners present their header.
PractNext ==
  \/ LorStart(<< "B" >>)
  \/ \E q \in InFlight : LorInsert(q)
  \/ Register(<< "B" >>, Pin1234)
  \/ \E header \in PinHeaders : PractClients(header)
  \/ \E header \in PinHeaders, id \in 1..2 : PractClient(header, id)

SpecPract == Init /\ [][PractNext]_vars

\* one request body for each save handler
GateEcoBody == [has |-> TRUE, people |-> << Mum >>]

\* a request to an endpoint behind the client-session gate, up to and
\* including its first statement
GatedRequest(token) ==
  \/ SessStart(token)
  \/ SessEnd(token, 1, << 7 >>, << >>)
  \/ Story(token, << 1 >>, << "t" >>)
  \/ Needs(token, << 1 >>, 3)
  \/ Affect(token, << 1 >>, << "t" >>, << 1, 1, 1, 1, 1 >>, 5)
  \/ Conversation(token, << 1 >>, << "t" >>, << "t" >>)
  \/ Assignment(token, << 1 >>, << "t" >>)
  \/ EcoStart(token, GateEcoBody)
  \/ Load(token)

\* the number of rows in the first n of a list of tables
RECURSIVE RowsIn(_, _, _)
RowsIn(d, tables, n) ==
  IF n = 0 THEN 0 ELSE Len(d[tables[n]]) + RowsIn(d, tables, n - 1)

\* the append-only tables
Tables == << "story_arc", "need_scores", "affect_measurements", "conversations",
             "assignments" >>

\* after the step, the tables filled behind the gate hold at most one row
\* together
FewRows ==
  Len(sessions') + BagCardinality(ecosystem') + RowsIn(data', Tables, Len(Tables)) <= 1

\* no request is between two statements
Quiet == inflight = EmptyBag

\* The gate: clients log in, time passes, and every endpoint behind the gate
\* is asked with every kind of token, one request after the other.
GateNext ==
  \/ \E name \in TwoNames : Quiet /\ LorStart(name)
  \/ \E q \in InFlight : LorInsert(q)
  \/ \E token \in TokenHeaders : Quiet /\ GatedRequest(token) /\ FewRows
  \/ \E q \in InFlight : SessInsert(q) /\ FewRows
  \/ \E q \in InFlight : EcoInsert(q) /\ FewRows
  \/ Tick(TokenTTL + 1)

SpecGate == InitPinless /\ [][GateNext]_vars

\* The proxy: either variant, any configured key; requests are forwarded
\* and answered.
ProxyNext ==
  \/ \E body \in MessageBodies : Messages(body)
  \/ \E q \in InFlight, outcome \in UpstreamOutcomes : MessagesReply(q, outcome)

InitProxy == Init /\ practPin = Undefined

SpecProxy == InitProxy /\ [][ProxyNext]_vars

\* the instants at which the week scenario looks at the clock: midnight and
\* noon of the days from Thursday 1970-01-01 on
DayGrid == { d * Day + h : d \in 0..MaxDays, h \in { 0, Day \div 2 } }

\* The week: a client logs in, starts two sessions on different days and
\* loads its data, one request after the other.
WeekNext ==
  \/ Quiet /\ LorStart(<< "B" >>)
  \/ \E q \in InFlight : LorInsert(q)
  \/ \E token \in SentTokens : Quiet /\ SessStart(token)
  \/ \E q \in InFlight : SessInsert(q) /\ Len(sessions') <= 2
  \/ \E token \in SentTokens : Quiet /\ Load(token)
  \/ \E t \in DayGrid : Tick(t)

SpecWeek == InitPinless /\ [][WeekNext]_vars

\* Affect history: a client logs in, saves measurements and loads its data.
AffectNext ==
  \/ Quiet /\ LorStart(<< "B" >>)
  \/ \E q \in InFlight : LorInsert(q)
  \/ \E token \in SentTokens, scores \in ScoresInputs, total \in TotalInputs :
       Affect(token, << 1 >>, << "t" >>, scores, total)
  \/ \E token \in SentTokens : Load(token)

SpecAffect == InitPinless /\ [][AffectNext]_vars

\* Name validation: clients send every kind of name.
NameNext ==
  \/ \E name \in NameInputs \cup NonStrings : LorStart(name)
  \/ \E q \in InFlight : LorInsert(q)

SpecName == InitPinless /\ [][NameNext]_vars

\* after the step, the tables filled behind the gate hold at most two rows
\* together
PairOfRows ==
  Len(sessions') + BagCardinality(ecosystem') + RowsIn(data', Tables, Len(Tables)) <= 2

\* Isolation: two clients log in and use every endpoint behind the gate, one
\* request after the other.
IsoNext ==
  \/ \E name \in TwoNames : Quiet /\ LorStart(name)
  \/ \E q \in InFlight : LorInsert(q)
  \/ \E token \in SentTokens : Quiet /\ GatedRequest(token) /\ PairOfRows
  \/ \E q \in InFlight : SessInsert(q) /\ PairOfRows
  \/ \E q \in InFlight : EcoInsert(q) /\ PairOfRows

SpecIso == InitPinless /\ [][IsoNext]_vars

----------------------------------------------------------------------------
(* Properties. *)

\* C1: every login-or-register call with a valid name that is not yet present
\* creates exactly one client row and answers isNew=true, and every call with
\* a name that is present (in any letter case) creates no row and answers
\* isNew=false with the clientId of the first call for that name.
LoginOrRegisterIdempotent ==
  (resp.op = "lor" /\ resp.status # 400) =>
    IF resp.fresh
      THEN resp.status = 200 /\ resp.isNew /\ resp.created = 1
      ELSE /\ resp.status = 200
           /\ ~resp.isNew
           /\ resp.created = 0
           /\ resp.clientId = hFirst[Lower(Trim(resp.name))]

\* C2: no two rows of clients have names equal under case-insensitive
\* comparison.
NameUniqueCI ==
  \A i, j \in DOMAIN clients :
    i # j => Lower(clients[i].name) # Lower(clients[j].name)

\* the last response is that of a request that went through the
\* client-session gate, and whether the gate let it pass
Gated == resp.op \in { "start", "end" }
Accepted == Gated /\ resp.status # 401

SevenDays == 7 * 24 * 3600

\* C3: a token is accepted, with the clientId and name it was issued with, at
\* every time up to issuance + 7 days, is rejected and gone from the map at any
\* later time, and a token never issued is rejected.
TokenValidity ==
  Gated =>
    IF resp.token \in DOMAIN hIssued
      THEN IF resp.at <= hIssued[resp.token].at + SevenDays
             THEN /\ Accepted
                  /\ resp.clientId = hIssued[resp.token].clientId
                  /\ resp.clientName = hIssued[resp.token].name
             ELSE ~Accepted /\ resp.token \notin DOMAIN tokens
      ELSE ~Accepted

\* C3 witness: a token is accepted at its last valid instant, after another
\* was presented past its seven days, rejected and purged.
TokenValidityWitness ==
  /\ Accepted
  /\ resp.at = hIssued[resp.token].at + SevenDays
  /\ \E t \in DOMAIN hIssued :
       /\ t \notin DOMAIN tokens
       /\ resp.at > hIssued[t].at + SevenDays

\* C4: a validation that accepts a token leaves the token map as it was, and
\* the token's expiry is still its issuance time + 7 days.
ValidateLeavesMap ==
  [][ Accepted' =>
        /\ tokens' = tokens
        /\ tokens'[resp'.token].expires = hIssued[resp'.token].at + SevenDays ]_vars

\* C4 witness: a token is accepted some time after it was issued and is still
\* in the map.
ValidateLeavesMapWitness ==
  /\ Accepted
  /\ resp.at > hIssued[resp.token].at
  /\ resp.token \in DOMAIN tokens

\* the position of session row i among the rows of its client, in id order
Rank(i) ==
  Cardinality({ j \in 1..i : sessions[j].client_id = sessions[i].client_id })

\* C5: for a client whose /sessions/start calls never overlapped, the k-th
\* call stored session_number k and returned sessionNumber k, whatever other
\* clients started in between.
SequentialNumbering ==
  /\ \A i \in DOMAIN sessions :
       sessions[i].client_id \notin hStartOverlap =>
         sessions[i].session_number = Rank(i)
  /\ ( /\ resp.op = "start" /\ resp.status = 200
       /\ hIssued[resp.token].clientId \notin hStartOverlap ) =>
       /\ sessions[resp.sessionId].client_id = hIssued[resp.token].clientId
       /\ resp.sessionNumber = Rank(resp.sessionId)

\* C5 witness: a client that never overlapped got its second number after
\* another client's session came in between.
SequentialNumberingWitness ==
  \E i, j, k \in DOMAIN sessions :
    /\ i < j /\ j < k
    /\ sessions[i].client_id = sessions[k].client_id
    /\ sessions[j].client_id # sessions[i].client_id
    /\ sessions[i].client_id \notin hStartOverlap
    /\ resp.op = "start" /\ resp.status = 200
    /\ resp.sessionId = k /\ resp.sessionNumber = 2

\* rows i and j of one client whose COUNTs both ran before either INSERT, with
\* no INSERT for that client between the two COUNTs
Raced(i, j) ==
  /\ i < j
  /\ sessions[i].client_id = sessions[j].client_id
  /\ sessions[j].hCountedAt < i
  /\ LET a == sessions[i].hCountedAt
         b == sessions[j].hCountedAt
     IN  ~ \E k \in DOMAIN sessions :
             /\ sessions[k].client_id = sessions[i].client_id
             /\ \/ (a < k /\ k <= b)
                \/ (b < k /\ k <= a)

\* C6: two starts of one client whose COUNT queries both run before either
\* INSERT store and return the same session number.
RaceSameNumber ==
  /\ \A i, j \in DOMAIN sessions :
       Raced(i, j) => sessions[i].session_number = sessions[j].session_number
  /\ (resp.op = "start" /\ resp.status = 200) =>
       resp.sessionNumber = sessions[resp.sessionId].session_number

\* C6 witness: the response to the second of two raced starts carries the
\* sessionNumber already stored in the row of the first.
RaceSameNumberWitness ==
  \E i \in DOMAIN sessions :
    /\ resp.op = "start" /\ resp.status = 200
    /\ i < resp.sessionId
    /\ sessions[i].client_id = resp.clientId
    /\ sessions[i].session_number = resp.sessionNumber
    /\ Raced(i, resp.sessionId)

Multiset(seq) ==
  [e \in { seq[i] : i \in DOMAIN seq } |->
     Cardinality({ i \in DOMAIN seq : seq[i] = e })]

\* the ecosystem rows of client c, as a multiset of entries
EcoOf(c) ==
  LET rows == { x \in DOMAIN ecosystem : x.client_id = c }
      entry(x) == [name |-> x.person_name, type |-> x.person_type,
                   needs |-> x.needs_provided]
  IN  [e \in { entry(x) : x \in rows } |->
         ecosystem[CHOOSE x \in rows : entry(x) = e]]

\* the entries of a people list, as a multiset, an absent needs being empty
Entries(people) ==
  Multiset([i \in 1..Len(people) |->
              [name |-> people[i].name, type |-> people[i].type,
               needs |-> IF people[i].needs = Undefined THEN << >>
                         ELSE people[i].needs]])

\* C7: after a successful save of list L that overlapped no other save of the
\* client (in particular the second of two successive saves of L), the
\* client's rows are exactly the entries of L, each once.
EcoIdempotent ==
  \A c \in DOMAIN hEco :
    hEco[c].last # << >> => EcoOf(c) = Entries(hEco[c].last[1].list)

\* C7 witness: the second of two successive saves of a two-entry list has
\* completed.
EcoIdempotentWitness ==
  \E c \in DOMAIN hEco :
    /\ hEco[c].last # << >>
    /\ hEco[c].last[1].repeat
    /\ Len(hEco[c].last[1].list) = 2
    /\ Cardinality(DOMAIN EcoOf(c)) = 2

\* C8: whenever no save of client c is in progress, the rows of c are the
\* complete list of one save request of c, or empty if c made none.
EcoCompleteSet ==
  \A c \in { hIssued[t].clientId : t \in DOMAIN hIssued } :
    (~ \E q \in InFlight : EcoSaving(q, c)) =>
      IF EcoHist(c).lists = {}
        THEN EcoOf(c) = Multiset(<< >>)
        ELSE \E l \in EcoHist(c).lists :
               (\A i \in 1..Len(l) : ~l[i].isNull) /\ EcoOf(c) = Entries(l)

\* C9: the practitioner gate lets a request through exactly when the header,
\* trimmed, equals the configured secret, trimmed; otherwise it answers 401
\* and the handler does not run.
PractGateTrimmed ==
  (resp.op \in { "pract_clients", "pract_client" }) =>
    LET same == Trim(OrEmpty(resp.header)) = Trim(PRACTITIONER_PIN)
    IN  IF same THEN resp.ran /\ resp.status # 401
        ELSE ~resp.ran /\ resp.status = 401

\* the persistence store: the tables and the sequence behind clients.id
Store == << clients, clientSeq, sessions, ecosystem, data >>

\* a token that is missing, was never issued, or has expired
Invalid(token) ==
  token \notin DOMAIN hIssued \/ now > hIssued[token].at + SevenDays

\* the handler of the request with this token runs in this step as the
\* client the token was issued for: it answers, or waits for its next statement
RunsAsIssued(token) ==
  \/ /\ resp'.op # "none" /\ resp'.op # "lor"
     /\ resp'.token = token /\ resp'.at = now /\ resp'.status # 401
     /\ resp'.clientId = hIssued[token].clientId
  \/ /\ inflight' # inflight
     /\ \E q \in BagToSet(inflight') :
          /\ q.op \in { "start", "eco" }
          /\ q.token = token /\ q.at = now
          /\ q.clientId = hIssued[token].clientId
          /\ CopiesIn(q, inflight') = CopiesIn(q, inflight) + 1

\* C11: a request to an endpoint behind the client-session gate whose token is
\* missing, never issued or expired is answered 401 and leaves every table
\* as it was; with a valid token the handler runs with the clientId the token
\* was issued for.
AuthGate ==
  [][ \A token \in TokenHeaders :
        GatedRequest(token) =>
          IF Invalid(token)
            THEN /\ resp'.status = 401 /\ resp'.token = token
                 /\ UNCHANGED Store
                 /\ UNCHANGED inflight
            ELSE RunsAsIssued(token) ]_vars

\* C11 witness: a save request with an expired token has been answered 401
\* while the table holds the row an earlier request with a valid token saved.
AuthGateWitness ==
  /\ resp.op = "story" /\ resp.status = 401
  /\ resp.token \in DOMAIN hIssued
  /\ resp.at > hIssued[resp.token].at + SevenDays
  /\ Len(data.story_arc) = 1
  /\ data.story_arc[1].client_id = hIssued[resp.token].clientId

\* C12: when no API key is configured, every /api/messages request is
\* answered 500 with the configuration error, and no call to the third-party
\* endpoint is made or pending.
ProxyNeedsKey ==
  (apiKey = Undefined \/ apiKey = << >>) =>
    /\ hOutbound = 0
    /\ \A q \in InFlight : q.op # "messages"
    /\ resp.op = "messages" => resp.status = 500 /\ resp.kind = "config"

\* C12 witness: a request has been answered by a server whose key is the
\* empty string.
ProxyNeedsKeyWitness ==
  apiKey = << >> /\ resp.op = "messages" /\ resp.status = 500

\* the most recent Monday 00:00 at or before the instant t
MostRecentMonday(t) == ((t \div Day) - ((getDay(t) + 6) % 7)) * Day

\* C13: on every day of the week, Sunday included, sessionsThisWeek of
\* /data/load is the number of the client's sessions started at or after the
\* most recent Monday 00:00 at or before the time of the call.
WeekFromMonday ==
  (resp.op = "load" /\ resp.status = 200) =>
    resp.sessionsThisWeek =
      Cardinality({ i \in DOMAIN sessions :
                      /\ sessions[i].client_id = resp.clientId
                      /\ sessions[i].started_at >= MostRecentMonday(resp.at) })

\* the measurements of client c: their positions in the table
Measured(c) ==
  { i \in DOMAIN data.affect_measurements :
      data.affect_measurements[i].client_id = c }

\* C14: affect of /data/load holds the ten most recent measurements of the
\* client (all of them when there are fewer), the most recent first, each as
\* it was saved, with the total the client supplied.
AffectLatestTen ==
  (resp.op = "load" /\ resp.status = 200) =>
    LET a == resp.affect
        m == Measured(resp.clientId)
    IN  /\ Len(a) = IF Cardinality(m) < 10 THEN Cardinality(m) ELSE 10
        /\ \A k \in 1..Len(a) :
             /\ a[k].id \in m
             /\ a[k] = data.affect_measurements[a[k].id]
             /\ Cardinality({ i \in m : i > a[k].id }) = k - 1

\* C14 witness: a load after eleven saves returns ten measurements, the first
\* being the eleventh save with its total 9, which is not the sum of its
\* answers.
AffectLatestTenWitness ==
  /\ resp.op = "load" /\ resp.status = 200
  /\ Cardinality(Measured(resp.clientId)) = 11
  /\ Len(resp.affect) = 10
  /\ resp.affect[1].id = 11
  /\ resp.affect[1].total = 9
  /\ resp.affect[1].q = << 1, 1, 1, 1, 1 >>
  /\ resp.affect[2].total = 5

\* a name that is missing, empty, nothing but white space, or not a string
Malformed(name) ==
  \/ name = Undefined
  \/ name \in NonStrings
  \/ \A i \in 1..Len(name) : name[i] \in WhiteSpace

\* C15: a login-or-register request with a malformed name is answered 400 and
\* leaves the clients table and the token registry as they were.
NameRejected ==
  [][ \A name \in NameInputs \cup NonStrings :
        (LorStart(name) /\ Malformed(name)) =>
          /\ resp'.op = "lor" /\ resp'.name = name /\ resp'.status = 400
          /\ UNCHANGED << clients, clientSeq, tokens, tokenCtr >> ]_vars

\* between the two states of a step, a table kept as a sequence has changed
\* only in rows of client X: rows of others are where and what they were,
\* and every new or changed row is a row of X
SeqOnlyOf(X, old, new) ==
  /\ \A i \in DOMAIN old : old[i].client_id # X => i \in DOMAIN new /\ new[i] = old[i]
  /\ \A i \in DOMAIN new :
       (i \notin DOMAIN old \/ new[i] # old[i]) => new[i].client_id = X

\* the same for the ecosystem table, kept as a bag
BagOnlyOf(X, old, new) ==
  \A row \in BagToSet(old) \cup BagToSet(new) :
    row.client_id # X => CopiesIn(row, new) = CopiesIn(row, old)

\* the step writes rows of client X only
OnlyTouches(X) ==
  /\ UNCHANGED << clients, clientSeq >>
  /\ SeqOnlyOf(X, sessions, sessions')
  /\ BagOnlyOf(X, ecosystem, ecosystem')
  /\ \A table \in DOMAIN data : SeqOnlyOf(X, data[table], data'[table])

\* the rows of a /data/load response are rows of the client of its token
LoadOnlyMine ==
  (resp.op = "load" /\ resp.status = 200) =>
    LET X == hIssued[resp.token].clientId
        started == { sessions[i].started_at :
                       i \in { j \in DOMAIN sessions : sessions[j].client_id = X } }
    IN  /\ \A f \in { "story", "needs", "lastAssignment", "affect" } :
             \A k \in DOMAIN resp[f] : resp[f][k].client_id = X
        /\ \A row \in BagToSet(resp.ecosystem) : row.client_id = X
        /\ resp.sessionsThisWeek <= Cardinality({ j \in DOMAIN sessions :
                                                   sessions[j].client_id = X })
        /\ resp.lastSessionTimestamp # << >> =>
             resp.lastSessionTimestamp[1] \in started

\* C16: every step of a request authenticated with a token of client X
\* writes, changes and deletes only rows whose client_id is X, and
\* /data/load with a token of X returns only rows whose client_id is X.
Isolation ==
  [][ /\ \A token \in SentTokens :
           (GatedRequest(token) /\ ~Invalid(token)) =>
             OnlyTouches(hIssued[token].clientId)
      /\ \A q \in InFlight :
           (SessInsert(q) \/ EcoInsert(q)) => OnlyTouches(hIssued[q.token].clientId)
      /\ LoadOnlyMine' ]_vars

\* C16 witness: a client has loaded its story while the story table holds a
\* newer row of another client.
IsolationWitness ==
  /\ resp.op = "load" /\ resp.status = 200
  /\ Len(resp.story) = 1
  /\ resp.story[1].client_id = resp.clientId
  /\ \E i \in DOMAIN data.story_arc :
       i > resp.story[1].id /\ data.story_arc[i].client_id # resp.clientId

====
